---------------------------- MODULE Spec2Model ----------------------------
(***************************************************************************)
(* Model of the training pipeline of OCR-ANN-P1:                           *)
(*   modules/train_models.py  TrainModel (constructor, fit,                *)
(*                            load_checkpoint, save_checkpoint)            *)
(*   modules/dataset.py       OCRDataset.__getitem__, dataloader_collate_fn*)
(*   modules/utils.py         CodingString, DecodeString                   *)
(*                                                                         *)
(* Strings are sequences of one-character strings.  Floating point loss    *)
(* values are stood for by small naturals; a mean is compared by cross     *)
(* multiplication.  Tensors of parameters are stood for by the number of   *)
(* optimizer steps that produced them.                                     *)
(***************************************************************************)
EXTENDS Integers, Sequences, FiniteSets, TLC

VARIABLES
    \* ---- checkpoint file name templating (save_checkpoint, lines 112-115)
    file_name,          \* the configured checkpoint_name pattern
    index,              \* the epoch index handed to save_checkpoint
    file_path,          \* the resolved name, or Unset before the call
    \* ---- batch collation (dataloader_collate_fn)
    batch,              \* the list of samples handed to the collator
    collated,           \* its result, or Unset
    \* ---- character codec (CodingString / DecodeString)
    map_file,           \* the lines of the character map file
    gt_text,            \* the string to encode
    pad_count,          \* number of trailing 0 codes appended before decoding
    encoded,            \* CodingString's output, or Unset
    decoded,            \* DecodeString's output, or Unset
    \* ---- sample pipeline (OCRDataset)
    image_numbers,      \* the configured dataset length
    transforms,         \* the configured transform chain
    item,               \* outcome of the last __getitem__ call, or Unset
    \* ---- training orchestrator (TrainModel); file_name is its configured
    \* checkpoint_name, index and file_path belong to its last save_checkpoint
    pc,                 \* where the current training process stands
    runs,               \* number of training processes started so far
    ctor,               \* the constructor call: the lr and show_log_steps
                        \* arguments of every run, what the class provides
                        \* for the attribute lr, and the epoch_numbers and
                        \* save_check_step of the last call (0 before it)
    self,               \* the fields of the TrainModel object
    dataloader_len,     \* number of batches of one pass over the dataloader
    ckpt_files,         \* checkpoint_dir: resolved file name -> contents
    epoch,              \* fit: the loop variable of line 51
    i,                  \* fit: number of batch steps done in this epoch
    running_loss,       \* fit: the accumulator of lines 52, 77, 80
    printed,            \* the log line of the last batch step, or Unset
    saved,              \* outcome of the save_checkpoint call of the last
                        \* step, or Unset when the step made none
    \* ---- history of the runs (not program state)
    executed,           \* epochs whose batches this run has begun, in order
    completed_before,   \* epochs whose batches an earlier run all completed
    loaded,             \* the file this run loaded last, or Unset
    at_save,            \* file name -> the live state its save_checkpoint saw
    written_now,        \* names of the files this run has written
    since,              \* batches and loss since the last log line
    direct_saves,       \* save_checkpoint calls made outside fit so far
    \* ---- CTC target lengths (CTCLoss.forward over a collated batch); the
    \* map file, the batch and its collation are the variables above
    map_origin,         \* who wrote the map file: "written" by hand, or
                        \* "created" by create_char_to_int_map_file
    raw_gts,            \* the ground-truth strings of the batch's samples
    ctc                 \* the lengths forward hands to F.ctc_loss, or Unset

nameVars    == <<file_name, index, file_path>>
collateVars == <<batch, collated>>
codecVars   == <<map_file, gt_text, pad_count, encoded, decoded>>
datasetVars == <<image_numbers, transforms, item>>
trainVars   == <<pc, runs, ctor, self, dataloader_len, ckpt_files, epoch, i,
                 running_loss, printed, saved, executed, completed_before,
                 loaded, at_save, written_now, since, direct_saves>>
lossVars    == <<map_origin, raw_gts, ctc>>
vars == <<nameVars, collateVars, codecVars, datasetVars, trainVars, lossVars>>

\* Outcome of a call: not made yet, returned a value, or raised an exception.
Unset == [st |-> "unset"]
Ok(v) == [st |-> "ok", val |-> v]
Raised(e) == [st |-> "raised", err |-> e]

(***************************************************************************)
(* Bounds of the model.                                                    *)
(***************************************************************************)
MaxNameLen == 4         \* longest checkpoint_name pattern
MaxIndex == 11          \* largest epoch index handed to save_checkpoint
MaxBatch == 2           \* most samples in one batch
MaxGtLen == 3           \* longest ground truth of a sample
MaxMapLines == 2        \* most lines in a character map file
MaxTextLen == 2         \* longest string handed to the codec
MaxPad == 1             \* most trailing pad codes appended before decoding
MaxImages == 3          \* largest configured image_numbers
MaxRuns == 2            \* training processes sharing the checkpoint directory
MaxEpochNumbers == 2    \* largest configured epoch_numbers
MaxSaveStep == 2        \* largest save_check_step
MaxDirectSaves == 1     \* save_checkpoint calls made outside fit, over all runs

(***************************************************************************)
(* Idle values of the parts a specification does not exercise.             *)
(***************************************************************************)
NameIdle    == file_name = <<>> /\ index = 0 /\ file_path = Unset
CollateIdle == batch = <<>> /\ collated = Unset
LossIdle    == map_origin = "none" /\ raw_gts = <<>> /\ ctc = Unset
CodecIdle   == /\ map_file = <<>> /\ gt_text = <<>> /\ pad_count = 0
               /\ encoded = Unset /\ decoded = Unset
DatasetIdle == image_numbers = 0 /\ transforms = "none" /\ item = Unset
EmptyFn     == [x \in {} |-> x]
NoSince     == [count |-> 0, sum |-> 0, shown_count |-> 0, shown_sum |-> 0]
TrainIdle   == /\ pc = "none" /\ runs = 0 /\ ctor = Unset /\ self = Unset
               /\ dataloader_len = 1 /\ ckpt_files = EmptyFn
               /\ epoch = 0 /\ i = 0 /\ running_loss = 0
               /\ printed = Unset /\ saved = Unset
               /\ executed = <<>> /\ completed_before = {}
               /\ loaded = Unset /\ at_save = EmptyFn /\ since = NoSince
               /\ direct_saves = 0 /\ written_now = {}

(***************************************************************************)
(* Python string primitives used by save_checkpoint.                       *)
(***************************************************************************)
DigitChars == <<"0", "1", "2", "3", "4", "5", "6", "7", "8", "9">>

NameChars == {"m", "#", "1"}

RECURSIVE Decimal(_)
\* str(n) for n >= 0: the decimal digits, most significant first.
Decimal(n) ==
    IF n < 10 THEN <<DigitChars[n + 1]>>
    ELSE Decimal(n \div 10) \o <<DigitChars[(n % 10) + 1]>>

Repeat(c, n) == [j \in 1..n |-> c]

\* faulty variant: no zero fill
FormatNoPad(n, width) == Decimal(n)

\* format(index, f"0{width}d") for index >= 0: zero fill up to width, never cut.
Format(n, width) ==
    LET d == Decimal(n)
    IN  IF Len(d) >= width THEN d ELSE Repeat("0", width - Len(d)) \o d

\* str.count(c) for a one-character c.
Count(s, c) == Cardinality({j \in 1..Len(s) : s[j] = c})

RECURSIVE Interleave(_, _)
\* str.replace("", new): new before every character and at the end.
Interleave(s, new) ==
    IF s = <<>> THEN new ELSE new \o <<Head(s)>> \o Interleave(Tail(s), new)

RECURSIVE Replace(_, _, _)
\* str.replace(old, new): every non-overlapping occurrence, left to right.
Replace(s, old, new) ==
    IF old = <<>> THEN Interleave(s, new)
    ELSE IF Len(s) < Len(old) THEN s
    ELSE IF SubSeq(s, 1, Len(old)) = old
         THEN new \o Replace(SubSeq(s, Len(old) + 1, Len(s)), old, new)
         ELSE <<Head(s)>> \o Replace(Tail(s), old, new)

\* Lines 112-115 of save_checkpoint: the file name under checkpoint_dir.
ResolveFileName(name, idx) ==
    LET hash_count == Count(name, "#")
    IN  Replace(name, Repeat("#", hash_count), Format(idx, hash_count))

RECURSIVE SeqsUpTo(_, _)
SeqsUpTo(S, n) ==
    IF n = 0 THEN {<<>>}
    ELSE LET shorter == SeqsUpTo(S, n - 1)
         IN  shorter \cup {Append(s, c) : s \in shorter, c \in S}

(***************************************************************************)
(* SpecName: save_checkpoint's file name resolution on every pattern and   *)
(* epoch index within the bounds.                                          *)
(***************************************************************************)
InitName ==
    /\ file_name \in SeqsUpTo(NameChars, MaxNameLen)
    /\ index \in 0..MaxIndex
    /\ file_path = Unset
    /\ CollateIdle /\ LossIdle /\ CodecIdle /\ DatasetIdle /\ TrainIdle

ResolveName ==
    /\ file_path = Unset
    /\ file_path' = Ok(ResolveFileName(file_name, index))
    /\ UNCHANGED <<file_name, index, collateVars, lossVars, codecVars, datasetVars,
                   trainVars>>

NextName == ResolveName

SpecName == InitName /\ [][NextName]_vars


(***************************************************************************)
(* C4.  The claim as stated: for every run of '#' of width w in the        *)
(* pattern, save_checkpoint resolves the name to the pattern with that run *)
(* replaced by the decimal epoch index zero-padded to width w, every other *)
(* character unchanged.  The claim as amended: the same, for patterns      *)
(* whose '#' characters all lie in one run.                                *)
(***************************************************************************)
DigitValue(c) == CHOOSE d \in 0..9 : DigitChars[d + 1] = c

IsDigit(c) == \E d \in 0..9 : DigitChars[d + 1] = c

RECURSIVE DecValue(_)
DecValue(s) ==
    IF s = <<>> THEN 0
    ELSE DecValue(SubSeq(s, 1, Len(s) - 1)) * 10 + DigitValue(s[Len(s)])

\* d is n in decimal, zero-padded to width w (and no wider than n needs).
IsZeroPadded(d, n, w) ==
    /\ Len(d) >= w
    /\ \A j \in 1..Len(d) : IsDigit(d[j])
    /\ DecValue(d) = n
    /\ (Len(d) > w => d[1] # "0")

\* positions a .. a+w-1 of p are a maximal run of '#'
IsRun(p, a, w) ==
    /\ w >= 1 /\ a >= 1 /\ a + w - 1 <= Len(p)
    /\ \A j \in a..(a + w - 1) : p[j] = "#"
    /\ (a > 1 => p[a - 1] # "#")
    /\ (a + w <= Len(p) => p[a + w] # "#")

\* result is p with the run at a replaced by n zero-padded to width w
FilledAt(result, p, a, w, n) ==
    LET after == Len(p) - (a + w - 1)
        dl == Len(result) - (a - 1) - after
    IN  /\ dl >= 1
        /\ SubSeq(result, 1, a - 1) = SubSeq(p, 1, a - 1)
        /\ SubSeq(result, Len(result) - after + 1, Len(result))
              = SubSeq(p, a + w, Len(p))
        /\ IsZeroPadded(SubSeq(result, a, a + dl - 1), n, w)

\* C4 as stated: every run of '#' in the pattern is filled with the
\* zero-padded epoch index, all other characters unchanged.
C4_AnyRunFilled ==
    file_path.st = "ok" =>
        \A a \in 1..Len(file_name), w \in 1..Len(file_name) :
            IsRun(file_name, a, w)
                => FilledAt(file_path.val, file_name, a, w, index)

\* C4 as amended: when all '#' of the pattern form one run of width w, the
\* resolved name is the pattern with the run replaced by the decimal epoch
\* index zero-padded to width w, all other characters unchanged.
C4_SingleRunFilled ==
    file_path.st = "ok" =>
        \A a \in 1..Len(file_name), w \in 1..Len(file_name) :
            (IsRun(file_name, a, w) /\ Count(file_name, "#") = w)
                => FilledAt(file_path.val, file_name, a, w, index)

\* the scenario of the specification, on the pattern m##: epoch 7 gives m07
C4_Witness ==
    /\ file_name = <<"m", "#", "#">>
    /\ index = 7
    /\ file_path = Ok(<<"m", "0", "7">>)

(***************************************************************************)
(* dataloader_collate_fn (dataset.py lines 152-169).  A sample is          *)
(* [gt: sequence of codes, img: <<C, H, W>>]; the pixels of an image are   *)
(* not modelled, resize yields an image of the requested height and width. *)
(***************************************************************************)
GtCodes == {1, 2}

ImgShapes == {<<3, 1, 2>>, <<3, 2, 1>>}

Samples == [gt : SeqsUpTo(GtCodes, MaxGtLen), img : ImgShapes]

SetMax(S) == CHOOSE m \in S : \A x \in S : x <= m
SetMin(S) == CHOOSE m \in S : \A x \in S : m <= x

\* faulty variant: the shortest ground truth
ShortestGt(b) == SetMin({Len(b[k].gt) : k \in 1..Len(b)})

\* line 159
LongestGt(b) == SetMax({Len(b[k].gt) : k \in 1..Len(b)})

\* lines 160-162: a zero tensor, each row's head overwritten by the sample's gt
PadGts(b) ==
    LET longest_gt == LongestGt(b)
    IN  [k \in 1..Len(b) |->
            [j \in 1..longest_gt |->
                IF j <= Len(b[k].gt) THEN b[k].gt[j] ELSE 0]]

\* resize(img, (h, w)) keeps the channels and yields height h, width w
Resize(img, h, w) == <<img[1], h, w>>

\* lines 164-168
StackImgs(b) ==
    LET longest_height == SetMax({b[k].img[2] : k \in 1..Len(b)})
        longest_width == SetMax({b[k].img[3] : k \in 1..Len(b)})
    IN  [k \in 1..Len(b) |-> Resize(b[k].img, longest_height, longest_width)]

\* max() of an empty sequence raises ValueError
dataloader_collate_fn(b) ==
    IF b = <<>> THEN Raised("ValueError")
    ELSE Ok([gt |-> PadGts(b), img |-> StackImgs(b)])

InitCollate ==
    /\ batch \in SeqsUpTo(Samples, MaxBatch)
    /\ collated = Unset
    /\ NameIdle /\ CodecIdle /\ DatasetIdle /\ TrainIdle /\ LossIdle

Collate ==
    /\ collated = Unset
    /\ collated' = dataloader_collate_fn(batch)
    /\ UNCHANGED <<batch, nameVars, codecVars, datasetVars, trainVars,
                   lossVars>>

NextCollate == Collate

SpecCollate == InitCollate /\ [][NextCollate]_vars

MapChars == {"a", "b"}

CodeTexts == {<<"0", "0", "0">>, <<"0", "0", "1">>, <<"0", "0", "2">>}

MapLines == {<<c, "#">> \o t \o <<"\n">> : c \in MapChars, t \in CodeTexts}

TextChars == {"a", "b"}

\* line[0] and int(line[2:5]) (Python indices start at 0)
LineChar(line) == line[1]
LineCode(line) == DecValue(SubSeq(line, 3, 5))

\* the last line k of the file satisfying P(k)
LastLine(file, c) ==
    SetMax({k \in 1..Len(file) : LineChar(file[k]) = c})
LastLineOfCode(file, n) ==
    SetMax({k \in 1..Len(file) : LineCode(file[k]) = n})

\* CodingString.__init__ lines 28-30: later lines overwrite earlier ones
char_to_int_map(file) ==
    [c \in {LineChar(file[k]) : k \in 1..Len(file)} |->
        LineCode(file[LastLine(file, c)])]

\* DecodeString.__init__ lines 67-69
int_to_char_map(file) ==
    [n \in {LineCode(file[k]) : k \in 1..Len(file)} |->
        LineChar(file[LastLineOfCode(file, n)])]

\* CodingString.__call__ lines 45-54: a missing character raises KeyError
CodingString(file, text) ==
    LET m == char_to_int_map(file)
    IN  IF \E j \in 1..Len(text) : text[j] \notin DOMAIN m
        THEN Raised("KeyError")
        ELSE Ok([j \in 1..Len(text) |-> m[text[j]]])

RECURSIVE Concat(_)
Concat(ss) == IF ss = <<>> THEN <<>> ELSE Head(ss) \o Concat(Tail(ss))

\* faulty variant: decodes every code, the blank included
DecodeStringNoSkip(file, codes) ==
    LET m == int_to_char_map(file)
    IN  IF \E j \in 1..Len(codes) : codes[j] \notin DOMAIN m
        THEN Raised("KeyError")
        ELSE Ok([j \in 1..Len(codes) |-> m[codes[j]]])

\* DecodeString.__call__ lines 82-87: code 0 is skipped
DecodeString(file, codes) ==
    LET m == int_to_char_map(file)
    IN  IF \E j \in 1..Len(codes) : codes[j] # 0 /\ codes[j] \notin DOMAIN m
        THEN Raised("KeyError")
        ELSE Ok(Concat([j \in 1..Len(codes) |->
                           IF codes[j] # 0 THEN <<m[codes[j]]>> ELSE <<>>]))

InitCodec ==
    /\ map_file \in SeqsUpTo(MapLines, MaxMapLines)
    /\ gt_text \in SeqsUpTo(TextChars, MaxTextLen)
    /\ pad_count \in 0..MaxPad
    /\ encoded = Unset /\ decoded = Unset
    /\ NameIdle /\ CollateIdle /\ LossIdle /\ DatasetIdle /\ TrainIdle

Encode ==
    /\ encoded = Unset
    /\ encoded' = CodingString(map_file, gt_text)
    /\ UNCHANGED <<map_file, gt_text, pad_count, decoded,
                   nameVars, collateVars, lossVars, datasetVars, trainVars>>

Decode ==
    /\ encoded.st = "ok"
    /\ decoded = Unset
    /\ decoded' = DecodeString(map_file, encoded.val \o Repeat(0, pad_count))
    /\ UNCHANGED <<map_file, gt_text, pad_count, encoded,
                   nameVars, collateVars, lossVars, datasetVars, trainVars>>

NextCodec == Encode \/ Decode

SpecCodec == InitCodec /\ [][NextCodec]_vars

\* every code of the file is non-zero and belongs to one character only
DistinctNonZeroCodes(file) ==
    \A k \in 1..Len(file) :
        /\ LineCode(file[k]) # 0
        /\ \A l \in 1..Len(file) :
            LineCode(file[k]) = LineCode(file[l])
                => LineChar(file[k]) = LineChar(file[l])

\* C8 as stated: for every map file and every string over the map's
\* characters, decoding the encoded string (with trailing pads) returns it.
C8_RoundTripAnyMap ==
    decoded.st # "unset" => decoded = Ok(gt_text)

\* C8 as amended: the same, for map files in which no code is 0 and no code
\* is given to two different characters.
C8_RoundTripValidMap ==
    (decoded.st # "unset" /\ DistinctNonZeroCodes(map_file))
        => decoded = Ok(gt_text)

C8_Witness ==
    /\ DistinctNonZeroCodes(map_file)
    /\ Len(map_file) = 2
    /\ gt_text = <<"a", "b">>
    /\ pad_count = 1
    /\ encoded = Ok(<<1, 2>>)
    /\ decoded = Ok(<<"a", "b">>)

(***************************************************************************)
(* OCRDataset (dataset.py lines 9-38).  The pair generator CreateImgGtPair *)
(* is an external source of (image, ground truth string, details); its     *)
(* strings are drawn over the characters of the dataset's map file.  The   *)
(* transform chain is either absent or the CodingString transform.         *)
(***************************************************************************)
DatasetMapFile ==
    << <<"a", "#", "0", "0", "1", "\n">>, <<"b", "#", "0", "0", "2", "\n">> >>

\* what create_pair() may return
CreatePairOutputs ==
    [img : ImgShapes, gt : SeqsUpTo(TextChars, MaxTextLen)]

DataIds == (-1)..(MaxImages + 1)

\* OCRDataset.__len__
DatasetLen == image_numbers

\* self.transforms(pair), lines 35-36
ApplyTransforms(pair) ==
    IF transforms = "none" THEN Ok(pair)
    ELSE LET coded == CodingString(map_file, pair.gt)
         IN  IF coded.st = "ok" THEN Ok([img |-> pair.img, gt |-> coded.val])
             ELSE coded

InitDataset ==
    /\ image_numbers \in 0..MaxImages
    /\ transforms \in {"none", "coding"}
    /\ item = Unset
    /\ map_file = DatasetMapFile
    /\ gt_text = <<>> /\ pad_count = 0 /\ encoded = Unset /\ decoded = Unset
    /\ NameIdle /\ CollateIdle /\ LossIdle /\ TrainIdle

\* OCRDataset.__getitem__(data_id), lines 28-38
GetItem(data_id) ==
    /\ \E pair \in CreatePairOutputs :
        item' = [data_id |-> data_id, out |-> ApplyTransforms(pair)]
    /\ UNCHANGED <<image_numbers, transforms, nameVars, collateVars, lossVars, codecVars,
                   trainVars>>

NextDataset == \E data_id \in DataIds : GetItem(data_id)

SpecDataset == InitDataset /\ [][NextDataset]_vars

\* C6: __getitem__ returns a sample for every index in [0, image_count) and
\* fails with an index error for every index outside that range.
C6_IndexContract ==
    item # Unset =>
        IF 0 <= item.data_id /\ item.data_id < DatasetLen
        THEN item.out.st = "ok"
        ELSE item.out = Raised("IndexError")

(***************************************************************************)
(* TrainModel (train_models.py lines 10-126).                              *)
(*                                                                         *)
(* A run is one training process: it constructs a TrainModel, may call     *)
(* load_checkpoint and save_checkpoint, and calls fit.  Runs follow one    *)
(* another and share checkpoint_dir and checkpoint_name.  A process may be *)
(* interrupted between two batch steps of fit.                             *)
(*                                                                         *)
(* Learning rates are symbolic: "caller_lr" is the lr argument, when one   *)
(* is given, "min_opt_lr" the configured value, and "class_lr" a value the *)
(* attribute lookup self.lr finds on the class (a subclass that defines    *)
(* lr); TrainModel itself defines none.  The DataLoader of lines 25-30     *)
(* shuffles, so it refuses an empty dataset: a pass has at least one batch.*)
(***************************************************************************)
TrainPatterns == {<<"m", "#">>, <<"#", "m", "#">>}

LogSteps == {1, 2}

BatchCounts == {1, 2}

LossValues == {1, 2}

LrArgs == {"None", "caller_lr"}

\* the state before the first run, with the launch configurations in Launch
InitWith(Launch) ==
    /\ file_name \in TrainPatterns
    /\ index = 0 /\ file_path = Unset
    /\ dataloader_len \in BatchCounts
    /\ ctor \in Launch
    /\ pc = "none" /\ runs = 0 /\ self = Unset
    /\ ckpt_files = EmptyFn
    /\ epoch = 0 /\ i = 0 /\ running_loss = 0
    /\ printed = Unset /\ saved = Unset
    /\ executed = <<>> /\ completed_before = {}
    /\ loaded = Unset /\ at_save = EmptyFn /\ since = NoSince
    /\ direct_saves = 0 /\ written_now = {}
    /\ CollateIdle /\ LossIdle /\ CodecIdle /\ DatasetIdle

\* TrainModel as the repository defines it, with any lr argument
InitCtor ==
    InitWith([lr : LrArgs, class_lr : {"AttributeError"},
              show_log_steps : LogSteps, max_epoch : {0},
              save_check_step : {0}])

\* a subclass that defines lr, so that the constructor returns an object;
\* the lr argument is left out
InitTrain ==
    InitWith([lr : {"None"}, class_lr : {"class_lr"},
              show_log_steps : LogSteps, max_epoch : {0},
              save_check_step : {0}])

\* epochs of the current run whose batch steps have all been done
CompletedNow ==
    {executed[k] : k \in 1..Len(executed)}
        \ (IF pc \in {"batch", "interrupted"} /\ i < dataloader_len
           THEN {epoch} ELSE {})

\* line 35 reads self.lr, which line 37 assigns only later
OptimizerLr(class_lr) == class_lr

\* line 37
ResolveLr(lr_arg) == IF lr_arg = "None" THEN "min_opt_lr" ELSE lr_arg

\* TrainModel.__init__, lines 21-39, in a new process
Construct(max_epoch, save_check_step) ==
    /\ pc \in {"none", "ctor_raised", "done", "raised", "interrupted"}
    /\ runs < MaxRuns
    /\ runs' = runs + 1
    /\ completed_before' = completed_before \cup CompletedNow
    /\ ctor' = [ctor EXCEPT !.max_epoch = max_epoch,
                             !.save_check_step = save_check_step]
    /\ IF ctor.class_lr = "AttributeError"
       THEN /\ pc' = "ctor_raised"
            /\ self' = Unset
       ELSE /\ pc' = "idle"
            /\ self' = [st |-> "ok",
                        show_log_step |-> ctor.show_log_steps,
                        loss_fn |-> [blank |-> 0, state |-> <<>>],
                        last_epoch_index |-> 0,
                        model |-> 0,
                        optimizer |-> [lr |-> OptimizerLr(ctor.class_lr),
                                       steps |-> 0],
                        max_epoch |-> max_epoch,
                        lr |-> ResolveLr(ctor.lr),
                        save_check_step |-> save_check_step]
    /\ epoch' = 0 /\ i' = 0 /\ running_loss' = 0
    /\ printed' = Unset /\ saved' = Unset
    /\ executed' = <<>> /\ loaded' = Unset /\ since' = NoSince
    /\ written_now' = {}
    /\ UNCHANGED <<nameVars, dataloader_len, ckpt_files, at_save,
                   direct_saves, collateVars, lossVars, codecVars, datasetVars>>

\* faulty variant: saves the optimizer without the steps it has taken
CheckpointOfStale(idx) ==
    [last_epoch_index |-> idx,
     model_state_dict |-> self.model,
     optimizer_state_dict |-> [self.optimizer EXCEPT !.steps = 0],
     loss_state_dict |-> self.loss_fn.state]

\* the record torch.save writes, lines 119-124
CheckpointOf(idx) ==
    [last_epoch_index |-> idx,
     model_state_dict |-> self.model,
     optimizer_state_dict |-> self.optimizer,
     loss_state_dict |-> self.loss_fn.state]

\* faulty variant: writes without looking for an existing file
save_checkpoint_overwrite(idx) ==
    LET path == ResolveFileName(file_name, idx)
    IN  [path |-> path, out |-> Ok(path),
         files |-> (path :> CheckpointOf(idx)) @@ ckpt_files]

\* save_checkpoint(index), lines 112-126: the resolved path, what the call
\* returns or raises, and the directory after it
save_checkpoint(idx) ==
    LET path == ResolveFileName(file_name, idx)
    IN  IF path \in DOMAIN ckpt_files
        THEN [path |-> path, out |-> Raised("FileExistsError"),
              files |-> ckpt_files]
        ELSE [path |-> path, out |-> Ok(path),
              files |-> (path :> CheckpointOf(idx)) @@ ckpt_files]

\* what the history keeps of a save: who made it, and the live state it saw
SaveRecord(idx, by) ==
    [by |-> by, index |-> idx, i |-> i,
     model |-> self.model, optimizer |-> self.optimizer,
     loss_state |-> self.loss_fn.state]

NoteSave(res, idx, by) ==
    IF res.out.st = "ok"
    THEN /\ at_save' = (res.path :> SaveRecord(idx, by)) @@ at_save
         /\ written_now' = written_now \cup {res.path}
    ELSE UNCHANGED <<at_save, written_now>>

\* a call of save_checkpoint(idx) from outside fit
SaveCheckpointCall(idx) ==
    /\ pc = "idle"
    /\ direct_saves < MaxDirectSaves
    /\ LET res == save_checkpoint(idx)
       IN  /\ index' = idx
           /\ file_path' = Ok(res.path)
           /\ saved' = res.out
           /\ ckpt_files' = res.files
           /\ NoteSave(res, idx, "call")
    /\ direct_saves' = direct_saves + 1
    /\ printed' = Unset
    /\ UNCHANGED <<file_name, pc, runs, ctor, self, dataloader_len, epoch, i,
                   running_loss, executed, completed_before, loaded, since,
                   collateVars, lossVars, codecVars, datasetVars>>

\* faulty variant: resumes at the saved epoch itself
ResumeEpochSame(checkpoint) == checkpoint.last_epoch_index

\* line 96
ResumeEpoch(checkpoint) == checkpoint.last_epoch_index + 1

\* load_checkpoint(file_name), lines 95-99
LoadCheckpoint(name) ==
    /\ pc = "idle"
    /\ name \in DOMAIN ckpt_files
    /\ LET checkpoint == ckpt_files[name]
       IN  self' = [self EXCEPT
                !.last_epoch_index = ResumeEpoch(checkpoint),
                !.model = checkpoint.model_state_dict,
                !.optimizer = checkpoint.optimizer_state_dict,
                !.loss_fn = [@ EXCEPT !.state = checkpoint.loss_state_dict]]
    /\ loaded' = [st |-> "ok", name |-> name,
                   earlier |-> name \notin written_now]
    /\ printed' = Unset /\ saved' = Unset
    /\ UNCHANGED <<nameVars, pc, runs, ctor, dataloader_len, ckpt_files,
                   epoch, i, running_loss, executed, completed_before,
                   at_save, written_now, since, direct_saves, collateVars, lossVars,
                   codecVars, datasetVars>>

\* fit, line 51: range(self.last_epoch_index, self.max_epoch) is entered,
\* or is empty and fit returns
FitStart ==
    /\ pc = "idle"
    /\ epoch' = self.last_epoch_index
    /\ pc' = IF self.last_epoch_index < self.max_epoch THEN "batch" ELSE "done"
    /\ i' = 0 /\ running_loss' = 0
    /\ since' = NoSince
    /\ printed' = Unset /\ saved' = Unset
    /\ UNCHANGED <<nameVars, runs, ctor, self, dataloader_len, ckpt_files,
                   executed, completed_before, loaded, at_save, written_now,
                   direct_saves, collateVars, lossVars, codecVars, datasetVars>>

\* line 78
LogDue(n) == n % self.show_log_step = 0

\* one batch step of fit, lines 53-80, with loss.item() = loss
BatchStep(loss) ==
    /\ pc = "batch"
    /\ i < dataloader_len
    /\ self' = [self EXCEPT !.model = @ + 1,
                            !.optimizer = [@ EXCEPT !.steps = @ + 1]]
    /\ LET total == running_loss + loss
       IN  IF LogDue(i)
           THEN /\ printed' = Ok([epoch |-> epoch, i |-> i,
                                  num |-> total, den |-> self.show_log_step])
                /\ running_loss' = 0
                /\ since' = [count |-> 0, sum |-> 0,
                             shown_count |-> since.count + 1,
                             shown_sum |-> since.sum + loss]
           ELSE /\ printed' = Unset
                /\ running_loss' = total
                /\ since' = [count |-> since.count + 1,
                             sum |-> since.sum + loss,
                             shown_count |-> 0, shown_sum |-> 0]
    /\ i' = i + 1
    /\ executed' = IF i = 0 THEN Append(executed, epoch) ELSE executed
    /\ saved' = Unset
    /\ UNCHANGED <<nameVars, pc, runs, ctor, dataloader_len, ckpt_files,
                   epoch, completed_before, loaded, at_save, written_now,
                   direct_saves, collateVars, lossVars, codecVars, datasetVars>>

\* faulty variant: due at the end of every save_check_step-th epoch
SaveDueAfter(e) == (e + 1) % self.save_check_step = 0

\* line 82
SaveDue(e) == e % self.save_check_step = 0

\* the loop of line 51 moves on to the next epoch, or ends
NextEpoch ==
    /\ epoch' = epoch + 1
    /\ pc' = IF epoch + 1 < self.max_epoch THEN "batch" ELSE "done"
    /\ i' = 0 /\ running_loss' = 0
    /\ since' = NoSince

\* the end of an epoch, lines 82-84 and back to line 51
EpochEnd ==
    /\ pc = "batch"
    /\ i = dataloader_len
    /\ IF SaveDue(epoch)
       THEN LET res == save_checkpoint(epoch)
            IN  /\ index' = epoch
                /\ file_path' = Ok(res.path)
                /\ saved' = res.out
                /\ ckpt_files' = res.files
                /\ NoteSave(res, epoch, "fit")
                /\ IF res.out.st = "ok"
                   THEN NextEpoch
                   ELSE /\ pc' = "raised"
                        /\ UNCHANGED <<epoch, i, running_loss, since>>
       ELSE /\ NextEpoch
            /\ saved' = Unset
            /\ UNCHANGED <<index, file_path, ckpt_files, at_save, written_now>>
    /\ printed' = Unset
    /\ UNCHANGED <<file_name, runs, ctor, self, dataloader_len, executed,
                   completed_before, loaded, direct_saves, collateVars, lossVars,
                   codecVars, datasetVars>>

\* the process is stopped between two batch steps
Interrupt ==
    /\ pc = "batch"
    /\ pc' = "interrupted"
    /\ printed' = Unset /\ saved' = Unset
    /\ UNCHANGED <<nameVars, runs, ctor, self, dataloader_len, ckpt_files,
                   epoch, i, running_loss, executed, completed_before,
                   loaded, at_save, written_now, since, direct_saves,
                   collateVars, lossVars, codecVars, datasetVars>>

NextTrain ==
    \/ \E max_epoch \in 1..MaxEpochNumbers, save_check_step \in 1..MaxSaveStep :
            Construct(max_epoch, save_check_step)
    \/ \E idx \in 0..MaxEpochNumbers : SaveCheckpointCall(idx)
    \/ \E name \in DOMAIN ckpt_files : LoadCheckpoint(name)
    \/ FitStart
    \/ \E loss \in LossValues : BatchStep(loss)
    \/ EpochEnd
    \/ Interrupt

SpecTrain == InitTrain /\ [][NextTrain]_vars

\* the constructor alone, on every launch
NextCtor ==
    \E max_epoch \in 1..MaxEpochNumbers, save_check_step \in 1..MaxSaveStep :
        Construct(max_epoch, save_check_step)

SpecCtor == InitCtor /\ [][NextCtor]_vars

(***************************************************************************)
(* Claims about the training orchestrator.                                 *)
(***************************************************************************)
ExecutedEpochs == {executed[k] : k \in 1..Len(executed)}

\* C1 as stated: a run that loaded a file written by an earlier run executes
\* no epoch whose batches an earlier run had all completed.
C1_NoCompletedEpochRerun ==
    (loaded.st = "ok" /\ loaded.earlier) =>
        ExecutedEpochs \cap completed_before = {}

\* C1 as amended: a run that called load_checkpoint executes no epoch index
\* up to and including the last_epoch_index recorded in the file it loaded.
C1_ResumesPastLoadedCheckpoint ==
    loaded.st = "ok" =>
        \A e \in ExecutedEpochs :
            e > ckpt_files[loaded.name].last_epoch_index

\* a resumed run executing an epoch after earlier runs completed some
C1_Witness ==
    /\ loaded.st = "ok" /\ loaded.earlier
    /\ completed_before # {}
    /\ ExecutedEpochs # {}
    /\ pc = "done"

\* C2: no step changes or removes a checkpoint file once written, and a
\* save_checkpoint call whose path already holds a file raises
\* FileExistsError and leaves the directory as it was.
C2_WriteOnce ==
    [][/\ \A n \in DOMAIN ckpt_files :
            n \in DOMAIN ckpt_files' /\ ckpt_files'[n] = ckpt_files[n]
       /\ (saved'.st # "unset" /\ file_path'.val \in DOMAIN ckpt_files)
            => (saved' = Raised("FileExistsError") /\ ckpt_files' = ckpt_files)
      ]_vars

\* a save_checkpoint call that met an existing file
C2_Witness ==
    /\ saved = Raised("FileExistsError")
    /\ file_path.st = "ok"
    /\ file_path.val \in DOMAIN ckpt_files
    /\ ckpt_files[file_path.val].last_epoch_index # index

\* C3: after load_checkpoint of a file, the model parameters, the optimizer
\* state and the loss module state equal those the orchestrator had when
\* save_checkpoint(e) wrote the file, and fit starts at epoch e + 1.
C3_RoundTrip ==
    loaded.st = "ok" =>
        LET at == at_save[loaded.name]
        IN  /\ self.last_epoch_index = at.index + 1
            /\ pc = "idle" =>
                /\ self.model = at.model
                /\ self.optimizer = at.optimizer
                /\ self.loss_fn.state = at.loss_state
            /\ pc # "idle" => epoch >= at.index + 1
            /\ Len(executed) > 0 => executed[1] = at.index + 1

\* a checkpoint of a trained state, loaded by a later run
C3_Witness ==
    /\ loaded.st = "ok" /\ loaded.earlier
    /\ pc = "idle"
    /\ at_save[loaded.name].model > 0
    /\ self.model = at_save[loaded.name].model
    /\ self.last_epoch_index = 2

\* C5: constructing TrainModel succeeds, and the optimizer it builds uses
\* the lr argument when one is given and min_opt_lr otherwise.
C5_LrConfigurable ==
    runs > 0 =>
        /\ pc = "idle"
        /\ self.optimizer.lr =
              (IF ctor.lr = "None" THEN "min_opt_lr" ELSE ctor.lr)

\* C9: every log line shows the mean of the losses of the batches processed
\* since the previous log line (or the start of the epoch), and leaves the
\* running-loss accumulator at 0.
C9_LogShowsMean ==
    printed.st = "ok" =>
        /\ printed.val.num * since.shown_count
              = since.shown_sum * printed.val.den
        /\ running_loss = 0

FitWritten == {n \in written_now : at_save[n].by = "fit"}

\* C10: a fit that started at epoch r and met no conflict has begun the
\* epochs r, r+1, ... once each in increasing order, and has them all done
\* up to max_epoch - 1 when it returns; it has written a checkpoint for
\* exactly the finished epochs e with e mod save_check_step = 0, each after
\* all batch steps of e and recording last_epoch_index = e.
C10_EpochsAndCheckpoints ==
    pc \in {"batch", "done"} =>
        LET r == self.last_epoch_index
            begun == (epoch - r) + (IF pc = "batch" /\ i > 0 THEN 1 ELSE 0)
        IN  /\ executed = [k \in 1..begun |-> r + k - 1]
            /\ pc = "batch" => (epoch < self.max_epoch /\ i <= dataloader_len)
            /\ pc = "done" =>
                epoch = (IF r < self.max_epoch THEN self.max_epoch ELSE r)
            /\ {at_save[n].index : n \in FitWritten}
                  = {e \in r..(epoch - 1) : e % self.save_check_step = 0}
            /\ Cardinality(FitWritten)
                  = Cardinality({e \in r..(epoch - 1) :
                                    e % self.save_check_step = 0})
            /\ \A n \in FitWritten :
                /\ at_save[n].i = dataloader_len
                /\ ckpt_files[n].last_epoch_index = at_save[n].index

\* a fit over epochs 0 and 1 with save_check_step 2: one checkpoint, of epoch 0
C10_Witness ==
    /\ pc = "done"
    /\ executed = <<0, 1>>
    /\ self.save_check_step = 2
    /\ \E n \in FitWritten :
        FitWritten = {n} /\ ckpt_files[n].last_epoch_index = 0


(***************************************************************************)
(* CTCLoss.forward (train_models.py lines 158-178) over a batch encoded by *)
(* CodingString and merged by dataloader_collate_fn.  The map file is       *)
(* either written by hand or by create_char_to_int_map_file (utils.py       *)
(* lines 148-158).  The value F.ctc_loss returns is not modelled: the      *)
(* state keeps the two length vectors forward hands to it.                  *)
(***************************************************************************)
\* a hand-written map file of at most two lines
WrittenMapFiles == SeqsUpTo(MapLines, 2)

\* readlines() of the file of unique characters: one character per line
UniqueCharLines == {<<c, "\n">> : c \in MapChars}

\* utils.py lines 156-158: enumerate(uniq_file, start=1)
create_char_to_int_map_file(uniq_file) ==
    [k \in 1..Len(uniq_file) |->
        <<uniq_file[k][1], "#">> \o Format(k, 3) \o <<"\n">>]

\* load_char_map_file lines 103-109: the same parsing as CodingString.__init__
load_char_map_file(file) == char_to_int_map(file)

\* the image of every sample of the batch (channels, height, width)
TargetImg == <<3, 1, 2>>

\* the classes and time steps of the model's output, preds.shape[1:]
PredShapes == {<<3, 4>>}

\* faulty variant: counts every entry of the row
count_all(row) == Len(row)

\* torch.count_nonzero over one row of the targets
count_nonzero(row) == Cardinality({j \in 1..Len(row) : row[j] # 0})

\* lines 172-176; preds is given by its shape (batch, classes, seq_len)
forward(preds, targets) ==
    [pred_lengths |-> [k \in 1..preds[1] |-> preds[3]],
     target_lengths |-> [k \in 1..Len(targets) |-> count_nonzero(targets[k])]]

InitTargets ==
    /\ map_file \in WrittenMapFiles
    /\ map_origin = "written"
    /\ raw_gts = <<>> /\ batch = <<>> /\ collated = Unset /\ ctc = Unset
    /\ gt_text = <<>> /\ pad_count = 0 /\ encoded = Unset /\ decoded = Unset
    /\ NameIdle /\ DatasetIdle /\ TrainIdle

\* create_char_to_int_map_file replaces the map file before any sample is read
CreateMapFile ==
    /\ map_origin = "written" /\ raw_gts = <<>>
    /\ \E uniq_file \in SeqsUpTo(UniqueCharLines, MaxMapLines) :
        map_file' = create_char_to_int_map_file(uniq_file)
    /\ map_origin' = "created"
    /\ UNCHANGED <<raw_gts, ctc, gt_text, pad_count, encoded, decoded,
                   collateVars, nameVars, datasetVars, trainVars>>

\* the samples of one batch: each ground truth, all of whose characters are in
\* the map, goes through CodingString (a character outside it raises KeyError)
EncodeBatch ==
    /\ raw_gts = <<>>
    /\ \E gts \in SeqsUpTo(SeqsUpTo(DOMAIN load_char_map_file(map_file),
                                    MaxTextLen), MaxBatch) \ {<<>>} :
        /\ raw_gts' = gts
        /\ batch' = [k \in 1..Len(gts) |->
                        [gt |-> CodingString(map_file, gts[k]).val,
                         img |-> TargetImg]]
    /\ UNCHANGED <<map_origin, ctc, collated, codecVars,
                   nameVars, datasetVars, trainVars>>

CollateBatch ==
    /\ batch # <<>> /\ collated = Unset
    /\ collated' = dataloader_collate_fn(batch)
    /\ UNCHANGED <<batch, lossVars, codecVars, nameVars, datasetVars,
                   trainVars>>

\* the model yields one prediction per row of the targets
Forward ==
    /\ collated.st = "ok" /\ ctc = Unset
    /\ \E shape \in PredShapes :
        ctc' = Ok(forward(<<Len(collated.val.gt)>> \o shape,
                          collated.val.gt))
    /\ UNCHANGED <<map_origin, raw_gts, collateVars, codecVars,
                   nameVars, datasetVars, trainVars>>

NextTargets == CreateMapFile \/ EncodeBatch \/ CollateBatch \/ Forward

SpecTargets == InitTargets /\ [][NextTargets]_vars

\* no character of the loaded map has code 0
NoZeroCode == \A c \in DOMAIN load_char_map_file(map_file) :
                  load_char_map_file(map_file)[c] # 0

\* target_lengths[i] is the length of sample i's ground truth
LengthsMatch == \A k \in 1..Len(raw_gts) :
                    ctc.val.target_lengths[k] = Len(raw_gts[k])

=============================================================================
